---------------------------- MODULE Spec2Model ----------------------------
(***************************************************************************)
(* A model of server.py: a Flask service with four GET routes that serve   *)
(* two JSON files, db/knowledge.json and db/tenants.json.                  *)
(*                                                                         *)
(* A file on disk is absent, holds text json.load rejects, or holds a JSON *)
(* document.  json.load turns a document into a Python value and jsonify   *)
(* turns a Python value back into a document; the two are modelled as the  *)
(* conversions they are (an object's members lose their file order in the  *)
(* dict and come back sorted by key).  Every request runs in a thread of   *)
(* its own: a handler first reads its file, then builds its response, and  *)
(* external actors may rewrite the files between any two steps.            *)
(*                                                                         *)
(* The documents are JSON values whose objects name each member once and   *)
(* whose numbers are integers; "valid JSON" is text that json.load         *)
(* accepts.  The <tenant_id> values are segments the route's converter     *)
(* accepts (not empty, no "/").                                            *)
(***************************************************************************)
EXTENDS Naturals, Sequences, FiniteSets

VARIABLES
    disk,      \* path -> what the file holds (changed by external actors only)
    external,  \* path -> what external actors last put there
    pc,        \* thread -> "idle" | "read" (line 17 done) | "done" (responded)
    route,     \* thread -> the view function the request was routed to
    arg,       \* thread -> the <tenant_id> path segment ("" when the route has none)
    local,     \* thread -> the outcome of the handler's read_json call
    snap,      \* thread -> what the route's backing file held when it was read
    reads,     \* thread -> number of read_json calls the request has made
    examined,  \* thread -> number of entries the lookup's scan has looked at
    resp       \* thread -> the response sent

vars == <<disk, external, pc, route, arg, local, snap, reads, examined, resp>>

---------------------------------------------------------------------------
(* Bounds of the model *)

\* longest tenant array the lookup is checked on
MaxLen == 3
\* number of request threads that run concurrently
NThreads == 2

Threads == 1..NThreads

---------------------------------------------------------------------------
(* JSON documents (what a file or a response body holds) *)

JStr(s) == [kind |-> "string", s |-> s]
JNum(s) == [kind |-> "number", s |-> s]
JNull == [kind |-> "null"]
\* members: a sequence of <<key, value>> in the order they are written
JObj(members) == [kind |-> "object", members |-> members]
JArr(items) == [kind |-> "array", items |-> items]

\* what a path holds when there is no file, or text that is not JSON
Missing == [kind |-> "missing"]
Garbage == [kind |-> "garbage"]

IsDocument(c) == c.kind \in {"string", "number", "null", "object", "array"}

Keys(o) == {o.members[i][1] : i \in DOMAIN o.members}
HasKey(e, k) == e.kind = "object" /\ k \in Keys(e)
Member(o, k) == o.members[CHOOSE i \in DOMAIN o.members : o.members[i][1] = k][2]

\* A document as a JSON value: the members of an object are unordered.
RECURSIVE Norm(_)
Norm(d) ==
    CASE d.kind = "object" ->
            [kind |-> "object",
             members |-> {<<d.members[i][1], Norm(d.members[i][2])>> : i \in DOMAIN d.members}]
      [] d.kind = "array" ->
            [kind |-> "array", items |-> [i \in DOMAIN d.items |-> Norm(d.items[i])]]
      [] OTHER -> d

JsonEq(a, b) == Norm(a) = Norm(b)

---------------------------------------------------------------------------
(* Python values and outcomes *)

PyNone == [kind |-> "none"]
PyStr(s) == [kind |-> "str", s |-> s]
PyInt(s) == [kind |-> "int", s |-> s]
PyDict(map) == [kind |-> "dict", map |-> map]
PyList(items) == [kind |-> "list", items |-> items]

Return(v) == [ok |-> TRUE, val |-> v]
Raise(e) == [ok |-> FALSE, exc |-> e]

\* json.load on a document; a repeated key keeps its last value
RECURSIVE json_load(_)
json_load(d) ==
    CASE d.kind = "string" -> PyStr(d.s)
      [] d.kind = "number" -> PyInt(d.s)
      [] d.kind = "null" -> PyNone
      [] d.kind = "array" -> PyList([i \in DOMAIN d.items |-> json_load(d.items[i])])
      [] d.kind = "object" ->
            PyDict([k \in Keys(d) |->
                json_load(d.members[CHOOSE i \in DOMAIN d.members :
                    /\ d.members[i][1] = k
                    /\ \A j \in DOMAIN d.members : d.members[j][1] = k => j <= i][2])])

\* the keys the model's documents use, in the order sort_keys puts them
KeyOrder == <<"error", "id", "name", "status", "title">>

\* the serialisation jsonify does: json.dumps with sorted keys
RECURSIVE json_dumps(_)
json_dumps(v) ==
    CASE v.kind = "str" -> JStr(v.s)
      [] v.kind = "int" -> JNum(v.s)
      [] v.kind = "none" -> JNull
      [] v.kind = "list" -> JArr([i \in DOMAIN v.items |-> json_dumps(v.items[i])])
      [] v.kind = "dict" ->
            LET ks == SelectSeq(KeyOrder, LAMBDA k : k \in DOMAIN v.map)
            IN  JObj([i \in DOMAIN ks |-> <<ks[i], json_dumps(v.map[ks[i]])>>])

Response(status, body) == [status |-> status, body |-> body]

\* jsonify(value) returned alone is status 200; `jsonify(value), 404` sets the status
jsonify(v, status) == Return(Response(status, json_dumps(v)))

\* what Flask sends when a view function raises: 500 with a body that is no JSON
ErrorPage == [kind |-> "html"]
handle_exception(outcome) ==
    IF outcome.ok THEN outcome.val ELSE Response(500, ErrorPage)

---------------------------------------------------------------------------
(* server.py *)

PORT == 3001

Files == {"knowledge.json", "tenants.json"}

db_path(file) == <<"db", file>>

Paths == {db_path(f) : f \in Files}

\* read_json with its result shared between requests: the value another
\* request in flight has read of the file is handed out again
read_json_shared(file) ==
    LET c == disk[db_path(file)]
        holders == {u \in Threads : pc[u] = "read" /\ route[u] \in {"get_knowledge", "get_tenants", "get_tenant"}
                                    /\ (route[u] = "get_knowledge") = (file = "knowledge.json")}
    IN  IF holders # {}
        THEN local[CHOOSE u \in holders : TRUE]
        ELSE CASE c.kind = "missing" -> Raise("FileNotFoundError")
               [] c.kind = "garbage" -> Raise("JSONDecodeError")
               [] OTHER -> Return(json_load(c))

\* open() raises when there is no file, json.load when the text is no JSON
read_json(file) ==
    LET c == disk[db_path(file)]
    IN  CASE c.kind = "missing" -> Raise("FileNotFoundError")
          [] c.kind = "garbage" -> Raise("JSONDecodeError")
          [] OTHER -> Return(json_load(c))

\* The disk after write_json(file, data).  No view function calls it.  The
\* model's dicts carry no member order, so the members are written by key.
write_json(file, data) == [disk EXCEPT ![db_path(file)] = json_dumps(data)]

\* t.get(key): None where t[key] raises KeyError
getitem_get(t, key) ==
    CASE t.kind = "dict" ->
            IF key \in DOMAIN t.map THEN Return(t.map[key]) ELSE Return(PyNone)
      [] OTHER -> Raise("TypeError")

\* t[key]
getitem(t, key) ==
    CASE t.kind = "dict" ->
            IF key \in DOMAIN t.map THEN Return(t.map[key]) ELSE Raise("KeyError")
      [] OTHER -> Raise("TypeError")

\* str(a) == str(b): the number 1 equals the string "1"
py_eq_loose(a, b) ==
    IF a.kind \in {"str", "int"} /\ b.kind \in {"str", "int"} THEN a.s = b.s ELSE a = b

\* a == b on two Python values: a str equals only a str of the same characters
py_eq(a, b) == a = b

\* bool(v)
truthy(v) ==
    CASE v.kind = "none" -> FALSE
      [] v.kind = "dict" -> DOMAIN v.map # {}
      [] v.kind = "list" -> Len(v.items) > 0
      [] v.kind = "str" -> v.s # ""
      [] v.kind = "int" -> v.s # "0"

\* What `for t in tenants` runs over: the entries of a list, the keys of a
\* dict (every one a str, so their order decides nothing); an int or None is
\* not iterable.  The model reads no file whose whole content is a string.
iterate(tenants) ==
    CASE tenants.kind = "list" -> Return(tenants.items)
      [] tenants.kind = "dict" ->
            LET ks == SelectSeq(KeyOrder, LAMBDA k : k \in DOMAIN tenants.map)
            IN  Return([i \in DOMAIN ks |-> PyStr(ks[i])])
      [] tenants.kind \in {"int", "none"} -> Raise("TypeError")

\* [t for t in items if t['id'] == tenant_id] and then its first element:
\* every entry is looked at before the first match is taken
next_match_eager(items, i, tenant_id) ==
    LET bad == {j \in DOMAIN items : j >= i /\ ~getitem(items[j], "id").ok}
        hit == {j \in DOMAIN items : j >= i /\ getitem(items[j], "id").ok
                                      /\ py_eq(getitem(items[j], "id").val, tenant_id)}
        b == CHOOSE j \in bad : \A k \in bad : j <= k
        h == CHOOSE j \in hit : \A k \in hit : j <= k
    IN  IF bad # {}
        THEN [ok |-> FALSE, exc |-> getitem(items[b], "id").exc, examined |-> b]
        ELSE [ok |-> TRUE, val |-> IF hit = {} THEN PyNone ELSE items[h],
              examined |-> Len(items)]

\* next((t for t in items if t['id'] == tenant_id), None), from entry i on:
\* the generator is pulled one entry at a time and stops at the first match;
\* `examined` counts the entries it has looked at.
RECURSIVE next_match(_, _, _)
next_match(items, i, tenant_id) ==
    IF i > Len(items)
    THEN [ok |-> TRUE, val |-> PyNone, examined |-> Len(items)]
    ELSE LET id == getitem(items[i], "id")
         IN  IF ~id.ok
             THEN [ok |-> FALSE, exc |-> id.exc, examined |-> i]
             ELSE IF py_eq(id.val, tenant_id)
                  THEN [ok |-> TRUE, val |-> items[i], examined |-> i]
                  ELSE next_match(items, i + 1, tenant_id)

\* line 37, on the value line 36 has read
find_tenant(tenants, tenant_id) ==
    LET items == iterate(tenants)
    IN  IF ~items.ok
        THEN [ok |-> FALSE, exc |-> items.exc, examined |-> 0]
        ELSE next_match(items.val, 1, PyStr(tenant_id))

\* The view functions, each applied to the outcome of its read_json call.
\* get_knowledge with its read wrapped in try/except: an empty list goes out
\* when the file cannot be read
get_knowledge_except(knowledge) ==
    IF ~knowledge.ok THEN jsonify(PyList(<< >>), 200) ELSE jsonify(knowledge.val, 200)

get_knowledge(knowledge) ==
    IF ~knowledge.ok THEN knowledge ELSE jsonify(knowledge.val, 200)

get_tenants(tenants) ==
    IF ~tenants.ok THEN tenants ELSE jsonify(tenants.val, 200)

\* get_tenant without the `, 404`: the error body goes out with status 200
get_tenant_default_status(tenant_id, tenants) ==
    IF ~tenants.ok
    THEN tenants
    ELSE LET tenant == find_tenant(tenants.val, tenant_id)
         IN  IF ~tenant.ok
             THEN Raise(tenant.exc)
             ELSE IF ~truthy(tenant.val)
                  THEN jsonify(PyDict([error |-> PyStr("Tenant not found")]), 200)
                  ELSE jsonify(tenant.val, 200)

get_tenant(tenant_id, tenants) ==
    IF ~tenants.ok
    THEN tenants
    ELSE LET tenant == find_tenant(tenants.val, tenant_id)
         IN  IF ~tenant.ok
             THEN Raise(tenant.exc)
             ELSE IF ~truthy(tenant.val)
                  THEN jsonify(PyDict([error |-> PyStr("Tenant not found")]), 404)
                  ELSE jsonify(tenant.val, 200)

health_check == jsonify(PyDict([status |-> PyStr("ok")]), 200)

\* every view function reading tenants.json
file_of_pasted(view) == "tenants.json"

\* the file each reading view function names in its read_json call
file_of(view) ==
    CASE view = "get_knowledge" -> "knowledge.json"
      [] view = "get_tenants" -> "tenants.json"
      [] view = "get_tenant" -> "tenants.json"

ReadingViews == {"get_knowledge", "get_tenants", "get_tenant"}

\* the view function's result once its read is done
view_result(view, tenant_id, read) ==
    CASE view = "get_knowledge" -> get_knowledge(read)
      [] view = "get_tenants" -> get_tenants(read)
      [] view = "get_tenant" -> get_tenant(tenant_id, read)

\* entries the lookup's scan looks at (0 for the other views)
view_examined(view, tenant_id, read) ==
    IF view = "get_tenant" /\ read.ok
    THEN find_tenant(read.val, tenant_id).examined
    ELSE 0

---------------------------------------------------------------------------
(* The files and requests the model runs on *)

Acme == JObj(<< <<"id", JStr("t1")>>, <<"name", JStr("Acme")>> >>)
Globex == JObj(<< <<"name", JStr("Globex")>>, <<"id", JStr("t2")>> >>)
AcmeTwin == JObj(<< <<"id", JStr("t1")>>, <<"name", JStr("Globex")>> >>)
UpperCase == JObj(<< <<"id", JStr("T1")>> >>)
NumericId == JObj(<< <<"id", JNum("1")>>, <<"name", JStr("Acme")>> >>)
StringOne == JObj(<< <<"id", JStr("1")>> >>)
NoId == JObj(<< <<"name", JStr("Acme")>> >>)
Empty == JObj(<< >>)
Article == JObj(<< <<"title", JStr("FAQ")>>, <<"id", JNum("1")>> >>)

\* what an array of the tenant file may hold: objects with a string id, with
\* a numeric id, without id, and a value that is no object
Entries == {Acme, Globex, AcmeTwin, UpperCase, NumericId, StringOne, NoId, Empty, JNum("1")}

TenantArrays == UNION {[1..n -> Entries] : n \in 0..MaxLen}

\* the <tenant_id> segments requested ("t9" is the id of no entry)
TenantIds == {"t1", "T1", "1", "t9"}

\* what external actors put into the two files while the service runs
KnowledgeContents == {Missing, Garbage, JArr(<<Article>>), Article}
TenantsContents ==
    {Missing, Garbage, JArr(<<Acme, Globex>>), JArr(<<Globex>>)}
Contents(file) == IF file = "knowledge.json" THEN KnowledgeContents ELSE TenantsContents
ServedIds == {"t1", "t9"}

\* the file each route is documented to serve (the routes' comments)
BackingFile(view) == IF view = "get_knowledge" THEN "knowledge.json" ELSE "tenants.json"

Idle ==
    /\ pc = [t \in Threads |-> "idle"]
    /\ route = [t \in Threads |-> "none"]
    /\ arg = [t \in Threads |-> ""]
    /\ local = [t \in Threads |-> PyNone]
    /\ snap = [t \in Threads |-> PyNone]
    /\ reads = [t \in Threads |-> 0]
    /\ examined = [t \in Threads |-> 0]
    /\ resp = [t \in Threads |-> PyNone]

Init ==
    /\ disk \in [Paths -> KnowledgeContents \cup TenantsContents]
    /\ \A f \in Files : disk[db_path(f)] \in Contents(f)
    /\ external = disk
    /\ Idle

---------------------------------------------------------------------------
(* Steps *)

\* A thread takes a request routed to a reading view function and runs it
\* up to and including its read_json call (lines 26, 31, 36).
BeginRequest(t, view, tenant_id) ==
    /\ pc[t] = "idle"
    /\ pc' = [pc EXCEPT ![t] = "read"]
    /\ route' = [route EXCEPT ![t] = view]
    /\ arg' = [arg EXCEPT ![t] = tenant_id]
    /\ local' = [local EXCEPT ![t] = read_json(file_of(view))]
    /\ snap' = [snap EXCEPT ![t] = disk[db_path(BackingFile(view))]]
    /\ reads' = [reads EXCEPT ![t] = 1]
    /\ UNCHANGED <<disk, external, examined, resp>>

\* FinishRequest with the value read kept in a module-level variable that
\* every request assigns: the view function finishes on what the latest
\* reader of its route put there
FinishRequestGlobal(t) ==
    LET others == {u \in Threads : u # t /\ pc[u] = "read" /\ route[u] = route[t]}
        read == IF others # {} THEN local[CHOOSE u \in others : TRUE] ELSE local[t]
    IN  /\ pc[t] = "read"
        /\ pc' = [pc EXCEPT ![t] = "done"]
        /\ resp' = [resp EXCEPT ![t] =
                        handle_exception(view_result(route[t], arg[t], read))]
        /\ examined' = [examined EXCEPT ![t] = view_examined(route[t], arg[t], read)]
        /\ UNCHANGED <<disk, external, route, arg, local, snap, reads>>

\* FinishRequest that writes what it has read back with write_json
FinishRequestWriteBack(t) ==
    /\ pc[t] = "read"
    /\ pc' = [pc EXCEPT ![t] = "done"]
    /\ resp' = [resp EXCEPT ![t] =
                    handle_exception(view_result(route[t], arg[t], local[t]))]
    /\ examined' = [examined EXCEPT ![t] = view_examined(route[t], arg[t], local[t])]
    /\ disk' = IF local[t].ok THEN write_json(file_of(route[t]), local[t].val) ELSE disk
    /\ UNCHANGED <<external, route, arg, local, snap, reads>>

\* The view function finishes on what it has read and Flask sends its
\* result, or the error page when it raised.
FinishRequest(t) ==
    /\ pc[t] = "read"
    /\ pc' = [pc EXCEPT ![t] = "done"]
    /\ resp' = [resp EXCEPT ![t] =
                    handle_exception(view_result(route[t], arg[t], local[t]))]
    /\ examined' = [examined EXCEPT ![t] = view_examined(route[t], arg[t], local[t])]
    /\ UNCHANGED <<disk, external, route, arg, local, snap, reads>>

\* a health check that probes the tenant file and fails with it
HealthCheckProbe(t) ==
    /\ pc[t] = "idle"
    /\ pc' = [pc EXCEPT ![t] = "done"]
    /\ route' = [route EXCEPT ![t] = "health_check"]
    /\ resp' = [resp EXCEPT ![t] =
                    handle_exception(IF read_json("tenants.json").ok
                                     THEN health_check
                                     ELSE read_json("tenants.json"))]
    /\ reads' = [reads EXCEPT ![t] = 1]
    /\ UNCHANGED <<disk, external, arg, local, snap, examined>>

\* GET /api/health: one step, no read.
HealthCheck(t) ==
    /\ pc[t] = "idle"
    /\ pc' = [pc EXCEPT ![t] = "done"]
    /\ route' = [route EXCEPT ![t] = "health_check"]
    /\ resp' = [resp EXCEPT ![t] = handle_exception(health_check)]
    /\ UNCHANGED <<disk, external, arg, local, snap, reads, examined>>

\* The response is delivered and the thread is free for the next request.
Release(t) ==
    /\ pc[t] = "done"
    /\ pc' = [pc EXCEPT ![t] = "idle"]
    /\ route' = [route EXCEPT ![t] = "none"]
    /\ arg' = [arg EXCEPT ![t] = ""]
    /\ local' = [local EXCEPT ![t] = PyNone]
    /\ snap' = [snap EXCEPT ![t] = PyNone]
    /\ reads' = [reads EXCEPT ![t] = 0]
    /\ examined' = [examined EXCEPT ![t] = 0]
    /\ resp' = [resp EXCEPT ![t] = PyNone]
    /\ UNCHANGED <<disk, external>>

\* An external actor replaces, corrupts or removes a file.
ExternalWrite(file, content) ==
    /\ disk[db_path(file)] # content
    /\ disk' = [disk EXCEPT ![db_path(file)] = content]
    /\ external' = [external EXCEPT ![db_path(file)] = content]
    /\ UNCHANGED <<pc, route, arg, local, snap, reads, examined, resp>>

Next ==
    \/ \E t \in Threads : BeginRequest(t, "get_knowledge", "")
    \/ \E t \in Threads : BeginRequest(t, "get_tenants", "")
    \/ \E t \in Threads, x \in ServedIds : BeginRequest(t, "get_tenant", x)
    \/ \E t \in Threads : FinishRequest(t)
    \/ \E t \in Threads : HealthCheck(t)
    \/ \E t \in Threads : Release(t)
    \/ \E f \in Files : \E c \in Contents(f) : ExternalWrite(f, c)

Spec == Init /\ [][Next]_vars

\* The lookup as a function of the tenant file and the id: one request on
\* every array of at most MaxLen entries.
InitLookup ==
    /\ \E items \in TenantArrays :
          disk = [p \in Paths |->
                    IF p = db_path("tenants.json") THEN JArr(items) ELSE JArr(<<Article>>)]
    /\ external = disk
    /\ Idle

NextLookup ==
    \/ \E x \in TenantIds : BeginRequest(1, "get_tenant", x)
    \/ FinishRequest(1)

SpecLookup == InitLookup /\ [][NextLookup]_vars

---------------------------------------------------------------------------
(* Properties of the lookup, GET /api/tenants/<tenant_id> *)

IsArray(c) == c.kind = "array"

\* thread t has answered a lookup that read a JSON array
Looked(t) == pc[t] = "done" /\ route[t] = "get_tenant" /\ IsArray(snap[t])

\* entry e is an object whose id is the string x
Matches(e, x) == HasKey(e, "id") /\ Member(e, "id") = JStr(x)

MatchesIn(items, x) == {i \in DOMAIN items : Matches(items[i], x)}

First(S) == CHOOSE i \in S : \A j \in S : i <= j

AllObjects(items) == \A i \in DOMAIN items : items[i].kind = "object"

\* every entry before position n is an object that carries an id field
IdsBefore(items, n) == \A i \in DOMAIN items : i < n => HasKey(items[i], "id")

NotFound == Response(404, JObj(<< <<"error", JStr("Tenant not found")>> >>))

\* the response is 200 with entry i of the array read
Found(t, i) == resp[t].status = 200 /\ JsonEq(resp[t].body, snap[t].items[i])

\* C1 as stated: over any array of objects, an id carried by exactly one of
\* them is answered 200 with that object, whatever the other objects are.
C1_Original ==
    \A t \in Threads :
        LET items == snap[t].items
            m == MatchesIn(items, arg[t])
        IN  (Looked(t) /\ AllObjects(items) /\ Cardinality(m) = 1)
                => Found(t, First(m))

\* C1 amended: over any array of objects, an id carried by exactly one of
\* them is answered 200 with that object, provided every object that stands
\* before it in the array carries an id field.
C1_UniqueIdFound ==
    \A t \in Threads :
        LET items == snap[t].items
            m == MatchesIn(items, arg[t])
        IN  (Looked(t) /\ AllObjects(items) /\ Cardinality(m) = 1
                /\ IdsBefore(items, First(m)))
                => Found(t, First(m))

\* the one match is not the first entry, and an object without id follows it
C1_Witness ==
    \E t \in Threads :
        LET items == snap[t].items
            m == MatchesIn(items, arg[t])
        IN  /\ Looked(t) /\ AllObjects(items) /\ Cardinality(m) = 1
            /\ First(m) > 1 /\ IdsBefore(items, First(m))
            /\ \E j \in DOMAIN items : j > First(m) /\ ~HasKey(items[j], "id")
            /\ Found(t, First(m))

\* C2 as stated: over any valid JSON array, an id that no object of it
\* carries is answered 404 {"error": "Tenant not found"}, never 200 or 500.
C2_Original ==
    \A t \in Threads :
        (Looked(t) /\ MatchesIn(snap[t].items, arg[t]) = {}) => resp[t] = NotFound

\* C2 amended: over any JSON array whose entries are all objects that carry
\* an id field, an id that none of them carries is answered 404
\* {"error": "Tenant not found"}, never 200 or 500.
C2_AbsentIdNotFound ==
    \A t \in Threads :
        LET items == snap[t].items
        IN  (Looked(t) /\ MatchesIn(items, arg[t]) = {}
                /\ IdsBefore(items, Len(items) + 1))
                => resp[t] = NotFound

\* a miss on a full array that holds the id in another case
C2_Witness ==
    \E t \in Threads :
        LET items == snap[t].items
        IN  /\ Looked(t) /\ arg[t] = "t1" /\ resp[t] = NotFound
            /\ Len(items) = MaxLen /\ IdsBefore(items, Len(items) + 1)
            /\ \E i \in DOMAIN items : items[i] = UpperCase

\* C9 as stated: when several objects carry the id, the answer is 200 with
\* the first of them in file order, and the scan stops there.
C9_Original ==
    \A t \in Threads :
        LET items == snap[t].items
            m == MatchesIn(items, arg[t])
        IN  (Looked(t) /\ Cardinality(m) >= 2)
                => Found(t, First(m)) /\ examined[t] = First(m)

\* C9 amended: when several objects carry the id and every entry before the
\* first of them is an object that carries an id field, the answer is 200
\* with the first of them in file order; a later duplicate is not returned
\* and raises nothing, and the scan looks at no entry after the first match.
C9_FirstDuplicateWins ==
    \A t \in Threads :
        LET items == snap[t].items
            m == MatchesIn(items, arg[t])
        IN  (Looked(t) /\ Cardinality(m) >= 2 /\ IdsBefore(items, First(m)))
                => /\ Found(t, First(m))
                   /\ examined[t] = First(m)
                   /\ \A j \in m : ~JsonEq(items[j], items[First(m)])
                                      => ~JsonEq(resp[t].body, items[j])

\* two different objects share the id; an entry that the scan could not
\* index follows the first of them
C9_Witness ==
    \E t \in Threads :
        LET items == snap[t].items
            m == MatchesIn(items, arg[t])
        IN  /\ Looked(t) /\ Cardinality(m) >= 2 /\ IdsBefore(items, First(m))
            /\ \E j \in m : ~JsonEq(items[j], items[First(m)])
            /\ \E k \in DOMAIN items : k > First(m) /\ ~HasKey(items[k], "id")
            /\ Found(t, First(m))

\* C10: the scan in file order decides the lookup.  An object without id
\* before the first match, or anywhere when nothing matches, makes it 500;
\* behind the first match it changes nothing; an entry whose id is not a
\* string matches no requested id and raises nothing.
C10_ScanOrderDecides ==
    \A t \in Threads :
        LET items == snap[t].items
            m == MatchesIn(items, arg[t])
            noId == {i \in DOMAIN items : items[i].kind = "object" /\ ~HasKey(items[i], "id")}
        IN  Looked(t) =>
              /\ (m # {} /\ \E i \in noId : i < First(m)) => resp[t].status = 500
              /\ (m = {} /\ noId # {}) => resp[t].status = 500
              /\ (m # {} /\ IdsBefore(items, First(m))) => Found(t, First(m))
              /\ (m = {} /\ IdsBefore(items, Len(items) + 1)) => resp[t] = NotFound
              /\ resp[t].status = 200 =>
                    \E i \in m : JsonEq(resp[t].body, items[i])

\* a numeric id that reads like the requested one is passed over, then an
\* object without id stands before the match and the answer is 500
C10_Witness ==
    \E t \in Threads :
        LET items == snap[t].items
            m == MatchesIn(items, arg[t])
        IN  /\ Looked(t) /\ arg[t] = "1" /\ m # {}
            /\ \E i, k \in DOMAIN items :
                    k < i /\ i < First(m) /\ items[k] = NumericId /\ items[i] = NoId
            /\ examined[t] = 2
            /\ resp[t].status = 500

---------------------------------------------------------------------------
(* Properties of the service as it runs *)

Done(t, view) == pc[t] = "done" /\ route[t] = view

Faulty(c) == c.kind \in {"missing", "garbage"}

Listed(t) == pc[t] = "done" /\ route[t] \in {"get_knowledge", "get_tenants"}

Answered(t) == pc[t] = "done" /\ route[t] \in ReadingViews

HealthOk == Response(200, JObj(<< <<"status", JStr("ok")>> >>))

OtherFile(file) == CHOOSE f \in Files : f # file

\* C3: GET /api/health answers 200 {"status": "ok"} in every state, whatever
\* the two files hold and whatever was answered before, and reads no file.
C3_HealthAlwaysOk ==
    \A t \in Threads : Done(t, "health_check") => resp[t] = HealthOk /\ reads[t] = 0

\* health answers while both files are unreadable and another request has
\* just failed with 500
C3_Witness ==
    \E t, u \in Threads :
        /\ Done(t, "health_check") /\ resp[t] = HealthOk
        /\ \A f \in Files : Faulty(disk[db_path(f)])
        /\ Answered(u) /\ resp[u].status = 500

\* C4: over a file that holds valid JSON, GET /api/knowledge and
\* GET /api/tenants answer 200 with the whole content of their own file as a
\* JSON value, and never with the content of the other file.
C4_ListsReturnWholeFile ==
    \A t \in Threads :
        (Listed(t) /\ IsDocument(snap[t])) =>
            /\ resp[t].status = 200
            /\ JsonEq(resp[t].body, snap[t])
            /\ \A c \in Contents(OtherFile(BackingFile(route[t]))) :
                    IsDocument(c) => ~JsonEq(resp[t].body, c)

\* both lists answered; the knowledge body is the file's value in another
\* member order
C4_Witness ==
    \E t, u \in Threads :
        /\ Done(t, "get_knowledge") /\ snap[t] = JArr(<<Article>>)
        /\ resp[t].status = 200 /\ resp[t].body # snap[t]
        /\ Done(u, "get_tenants") /\ snap[u] = JArr(<<Acme, Globex>>)
        /\ resp[u].status = 200

\* C5: when the file an endpoint reads is missing or not JSON the request
\* ends in 500 after one read, never 200 or 404; an endpoint whose own file
\* is valid is not failed by the other file.
C5_FaultyFileIs500 ==
    \A t \in Threads :
        Answered(t) =>
            /\ Faulty(snap[t]) => resp[t].status = 500 /\ reads[t] = 1
            /\ IsDocument(snap[t]) => resp[t].status # 500

\* a lookup failed on the missing tenant file while the knowledge list is
\* answered, and a list failed on text that is no JSON
C5_Witness ==
    \E t, u \in Threads :
        /\ Done(t, "get_tenant") /\ snap[t] = Missing /\ resp[t].status = 500
        /\ Done(u, "get_knowledge") /\ resp[u].status = 200
        /\ disk[db_path("tenants.json")] = Garbage

\* C6: the service never changes a file: each file holds what external
\* actors last put there, after any requests.
C6_ServiceNeverWrites == disk = external

\* two requests answered, one of them failed, after the files were changed
C6_Witness ==
    \E t, u \in Threads :
        /\ Answered(t) /\ resp[t].status = 500
        /\ Answered(u) /\ resp[u].status = 200 /\ snap[u] # disk[db_path(BackingFile(route[u]))]
        /\ disk = external

\* C7: every response is computed from what the file held when the request
\* read it: a tenant present then is found, one absent then is 404, a file
\* unreadable then is 500 and a valid one is served whole.
C7_ReadsAreFresh ==
    \A t \in Threads :
        Answered(t) =>
            LET m == MatchesIn(snap[t].items, arg[t])
            IN  /\ Faulty(snap[t]) => resp[t].status = 500
                /\ (Listed(t) /\ IsDocument(snap[t])) =>
                        resp[t].status = 200 /\ JsonEq(resp[t].body, snap[t])
                /\ (Looked(t) /\ m # {}) => Found(t, First(m))
                /\ (Looked(t) /\ m = {}) => resp[t] = NotFound

\* the same lookup answered 404 and 200 around an external change that
\* added the tenant, and the file has since become unreadable
C7_Witness ==
    \E t, u \in Threads :
        /\ Done(t, "get_tenant") /\ Done(u, "get_tenant") /\ arg[t] = arg[u]
        /\ resp[t] = NotFound /\ resp[u].status = 200
        /\ Faulty(disk[db_path("tenants.json")])

SameRequest(t, u) ==
    pc[t] = "done" /\ pc[u] = "done" /\ route[t] = route[u] /\ arg[t] = arg[u]
        /\ snap[t] = snap[u]

Slot(t) == <<pc[t], route[t], arg[t], local[t], snap[t], reads[t], examined[t], resp[t]>>

\* C8: the same request over the same file content gets the same response,
\* whatever was handled before and however the threads interleave, and a
\* step of one request changes nothing another request holds.
C8_StatelessRequests ==
    /\ [](\A t, u \in Threads : SameRequest(t, u) => resp[t] = resp[u])
    /\ [][\A t, u \in Threads : (t # u /\ Slot(t)' # Slot(t)) => Slot(u)' = Slot(u)]_vars

\* two threads hold the same answer to the same lookup over the same
\* content, read before the file was changed
C8_Witness ==
    \E t, u \in Threads :
        /\ t # u /\ SameRequest(t, u) /\ route[t] = "get_tenant"
        /\ resp[t].status = 200 /\ resp[t] = resp[u]
        /\ disk[db_path("tenants.json")] # snap[t]

=============================================================================
